---- MODULE Spec2Model ----
(***************************************************************************)
(* Model of the AutoClean CSV component (src/unnamed/part_000): the file   *)
(* upload handler, detectIssues and cleanData, over the React state        *)
(* csvData, headers, issues, cleanedData, cleaningLog and isLoading.       *)
(*                                                                         *)
(* A cell is a JavaScript value: a string (a sequence of characters) or a  *)
(* number (the median written by the imputation step).  Numbers are kept   *)
(* as twice their value, so that the half-integers a median of integers    *)
(* can produce stay integers.                                              *)
(***************************************************************************)
EXTENDS Integers, Sequences, FiniteSets

\* ------------------------------------------------------------------------
\* Bounds of the model
\* ------------------------------------------------------------------------
MaxRows == 3
MaxCols == 2
MaxReaders == 1
MaxSample == 11
MaxCallLen == 3

\* ------------------------------------------------------------------------
\* JavaScript values
\* ------------------------------------------------------------------------
NBSP == "nbsp"
WhiteSpaceChars == {" ", NBSP}
DigitChars == <<"0", "1", "2", "3", "4", "5", "6", "7", "8", "9">>

Str(s) == [num |-> FALSE, str |-> s, twice |-> 0]
Num(t) == [num |-> TRUE, str |-> <<>>, twice |-> t]
EmptyStr == Str(<<>>)

\* JavaScript truthiness of a cell: '' and 0 are falsy
Truthy(v) == IF v.num THEN v.twice # 0 ELSE v.str # <<>>

IsDigit(c) == \E i \in 1..10 : DigitChars[i] = c
DigitVal(c) == (CHOOSE i \in 1..10 : DigitChars[i] = c) - 1

RECURSIVE NatToString(_)
NatToString(n) ==
    IF n < 10 THEN <<DigitChars[n + 1]>>
    ELSE NatToString(n \div 10) \o <<DigitChars[(n % 10) + 1]>>

\* Number.prototype.toString / String.prototype.toString
ToString(v) ==
    IF ~v.num THEN v.str
    ELSE IF v.twice % 2 = 0 THEN NatToString(v.twice \div 2)
    ELSE NatToString(v.twice \div 2) \o <<".", "5">>

RECURSIVE TrimStart(_)
TrimStart(s) ==
    IF s # <<>> /\ Head(s) \in WhiteSpaceChars THEN TrimStart(Tail(s)) ELSE s

RECURSIVE TrimEnd(_)
TrimEnd(s) ==
    IF s # <<>> /\ s[Len(s)] \in WhiteSpaceChars
    THEN TrimEnd(SubSeq(s, 1, Len(s) - 1)) ELSE s

\* String.prototype.trim: U+00A0 is white space too
Trim(s) == TrimEnd(TrimStart(s))

\* value.includes('\u00a0')
IncludesNbsp(s) == \E i \in 1..Len(s) : s[i] = NBSP

\* .replace(/\u00a0/g, ' ')
ReplaceNbsp(s) == [i \in 1..Len(s) |-> IF s[i] = NBSP THEN " " ELSE s[i]]

RECURSIVE Repeat(_, _)
Repeat(c, n) == IF n <= 0 THEN <<>> ELSE <<c>> \o Repeat(c, n - 1)

\* String.prototype.padStart(maxLength, '0')
PadStart(s, maxLength) == Repeat("0", maxLength - Len(s)) \o s

\* /^\d+$/.test(value)
AllDigits(s) == s # <<>> /\ \A i \in 1..Len(s) : IsDigit(s[i])

RECURSIVE DigitPrefix(_)
DigitPrefix(s) ==
    IF s # <<>> /\ IsDigit(Head(s)) THEN <<Head(s)>> \o DigitPrefix(Tail(s))
    ELSE <<>>

RECURSIVE DecimalValue(_)
DecimalValue(s) ==
    IF s = <<>> THEN 0
    ELSE 10 * DecimalValue(SubSeq(s, 1, Len(s) - 1)) + DigitVal(s[Len(s)])

NaN == [nan |-> TRUE, twice |-> 0]

\* parseFloat: skips leading white space, reads the longest numeric prefix
ParseFloat(v) ==
    IF v.num THEN [nan |-> FALSE, twice |-> v.twice]
    ELSE LET p == DigitPrefix(TrimStart(v.str))
         IN  IF p = <<>> THEN NaN
             ELSE [nan |-> FALSE, twice |-> 2 * DecimalValue(p)]

\* ------------------------------------------------------------------------
\* Sequence helpers standing for Array.prototype.map/filter and lodash
\* ------------------------------------------------------------------------
Map(f(_), s) == [i \in 1..Len(s) |-> f(s[i])]

Range(s) == {s[i] : i \in 1..Len(s)}

\* _.uniqBy(rows, row => JSON.stringify(row)): the first occurrence of each
\* value is kept, in order.  Every row object has the same keys in the same
\* order and JSON.stringify tells "5" from 5, so two rows have the same
\* JSON text exactly when they are equal.
RECURSIVE UniqBy(_)
UniqBy(s) ==
    IF s = <<>> THEN <<>>
    ELSE LET init == UniqBy(SubSeq(s, 1, Len(s) - 1))
             last == s[Len(s)]
         IN  IF last \in Range(init) THEN init ELSE Append(init, last)

\* [...arr].sort((a, b) => a - b)
RECURSIVE InsertSorted(_, _)
InsertSorted(x, s) ==
    IF s = <<>> THEN <<x>>
    ELSE IF x < Head(s) THEN <<x>> \o s
    ELSE <<Head(s)>> \o InsertSorted(x, Tail(s))

RECURSIVE SortAsc(_)
SortAsc(s) ==
    IF s = <<>> THEN <<>>
    ELSE InsertSorted(s[Len(s)], SortAsc(SubSeq(s, 1, Len(s) - 1)))

\* ------------------------------------------------------------------------
\* Plain objects used as maps: the entries in insertion order
\* ------------------------------------------------------------------------
Keys(m) == [i \in 1..Len(m) |-> m[i].k]
HasKey(m, key) == \E i \in 1..Len(m) : m[i].k = key
Get(m, key) == m[CHOOSE i \in 1..Len(m) : m[i].k = key].v
\* m[key] = value
Put(m, key, value) ==
    IF HasKey(m, key)
    THEN [i \in 1..Len(m) |-> IF m[i].k = key THEN [k |-> key, v |-> value] ELSE m[i]]
    ELSE Append(m, [k |-> key, v |-> value])

\* ------------------------------------------------------------------------
\* Rows as objects keyed by header
\* ------------------------------------------------------------------------
\* obj[header] = row[index] || '' for every header, in order: with a
\* repeated header name the last column of that name wins
ToObject(row, hdrs) ==
    [h \in Range(hdrs) |->
        LET index == CHOOSE i \in 1..Len(hdrs) :
                        hdrs[i] = h /\ \A j \in (i + 1)..Len(hdrs) : hdrs[j] # h
        IN  IF index <= Len(row) /\ Truthy(row[index]) THEN row[index]
            ELSE EmptyStr]

ObjectData(data, hdrs) == [i \in 1..Len(data) |-> ToObject(data[i], hdrs)]

\* ------------------------------------------------------------------------
\* Stats helpers
\* ------------------------------------------------------------------------
\* Mutant: if (arr.length <= 1) return 0
QuantileGuardOffByOne(arr, q4) ==
    IF Len(arr) <= 1 THEN 0
    ELSE LET sorted == SortAsc(arr)
             pos4 == (Len(sorted) - 1) * q4
             base == pos4 \div 4
             rest4 == pos4 - 4 * base
         IN  IF base + 2 <= Len(sorted)
             THEN 4 * sorted[base + 1]
                    + rest4 * (sorted[base + 2] - sorted[base + 1])
             ELSE 4 * sorted[base + 1]

\* quantile(arr, q) for q = q4/4, on values kept as twice their value; the
\* result is 8 times the quantile (rest is a multiple of 1/4)
Quantile(arr, q4) ==
    IF Len(arr) = 0 THEN 0
    ELSE LET sorted == SortAsc(arr)
             pos4 == (Len(sorted) - 1) * q4
             base == pos4 \div 4
             rest4 == pos4 - 4 * base
         IN  IF base + 2 <= Len(sorted)
             THEN 4 * sorted[base + 1]
                    + rest4 * (sorted[base + 2] - sorted[base + 1])
             ELSE 4 * sorted[base + 1]

\* median(values), on values kept as twice their value; the result is
\* twice the median
Median(values) ==
    IF Len(values) = 0 THEN 0
    ELSE LET sorted == SortAsc(values)
             mid == Len(sorted) \div 2
         IN  IF Len(sorted) % 2 = 0
             THEN (sorted[mid] + sorted[mid + 1]) \div 2
             ELSE sorted[mid + 1]

\* ------------------------------------------------------------------------
\* detectIssues
\* ------------------------------------------------------------------------
\* numericValues.length > 10, 3 * iqr
OutlierMinCount == 10
FenceFactor == 3

\* !row[header] || row[header].toString().trim() === ''
IsMissing(v) == ~Truthy(v) \/ Trim(ToString(v)) = <<>>

Count(P(_), s) == Cardinality({i \in 1..Len(s) : P(s[i])})

\* value = row[header]?.toString() || ''; value !== value.trim() || value.includes('\u00a0')
HasWhitespace(v) ==
    LET value == ToString(v)
    IN  value # Trim(value) \/ IncludesNbsp(value)

\* /^\d+$/.test(value) && value.startsWith('0') && value.length > 1
HasLeadingZeros(v) ==
    LET value == ToString(v)
    IN  AllDigits(value) /\ Head(value) = "0" /\ Len(value) > 1

\* objectData.map(row => parseFloat(row[header])).filter(val => !isNaN(val))
NumericValues(vals) ==
    LET parsed == Map(ParseFloat, vals)
        keep(p) == ~p.nan
        twiceOf(p) == p.twice
    IN  Map(twiceOf, SelectSeq(parsed, keep))

\* Mutant: only the values above the upper fence are counted
OutlierCountUpperOnly(numericValues) ==
    LET q1 == Quantile(numericValues, 1)
        q3 == Quantile(numericValues, 3)
        iqr == q3 - q1
        out(val) == 4 * val > q3 + FenceFactor * iqr
    IN  Count(out, numericValues)

OutlierCount(numericValues) ==
    LET q1 == Quantile(numericValues, 1)
        q3 == Quantile(numericValues, 3)
        iqr == q3 - q1
        out(val) == 4 * val < q1 - FenceFactor * iqr
                      \/ 4 * val > q3 + FenceFactor * iqr
    IN  Count(out, numericValues)

Column(objectData, header) == [i \in 1..Len(objectData) |-> objectData[i][header]]

\* headers.forEach(header => { if (Flag(header)) map[header] = Value(header) })
\* starting from {}: a key is inserted where its header first occurs, and a
\* repeated header assigns the same value again
ForEachHeader(hdrs, Flag(_), Value(_)) ==
    LET flagged == SelectSeq(UniqBy(hdrs), Flag)
    IN  [i \in 1..Len(flagged) |-> [k |-> flagged[i], v |-> Value(flagged[i])]]

\* The Issues object handed to setIssues
detectIssues(data, hdrs) ==
    LET objectData == ObjectData(data, hdrs)
        missingCount(header) == Count(IsMissing, Column(objectData, header))
        isMissing(header) == missingCount(header) > 0
        hasWhitespace(header) ==
            \E i \in 1..Len(objectData) : HasWhitespace(objectData[i][header])
        hasLeadingZeros(header) ==
            \E i \in 1..Len(objectData) : HasLeadingZeros(objectData[i][header])
        numericValues(header) == NumericValues(Column(objectData, header))
        outlierCount(header) == OutlierCount(numericValues(header))
        hasOutliers(header) ==
            Len(numericValues(header)) > OutlierMinCount /\ outlierCount(header) > 0
        marker(header) == "flagged"
    IN  [missing      |-> ForEachHeader(hdrs, isMissing, missingCount),
         duplicates   |-> Len(objectData) - Len(UniqBy(objectData)),
         whitespace   |-> ForEachHeader(hdrs, hasWhitespace, marker),
         leadingZeros |-> ForEachHeader(hdrs, hasLeadingZeros, marker),
         outliers     |-> ForEachHeader(hdrs, hasOutliers, outlierCount),
         structure    |-> [columns |-> Len(hdrs), rowCount |-> Len(data)]]

\* ------------------------------------------------------------------------
\* cleanData
\* ------------------------------------------------------------------------
LogEntry(step, column, count) ==
    [step |-> step, column |-> column, count |-> count, type |-> "success"]

\* Mutant: the guard is off by one (duplicates > 1), a single duplicate stays
RemoveDuplicatesOffByOne(st, iss) ==
    IF iss.duplicates > 1
    THEN LET beforeCount == Len(st.objectData)
             uniq == UniqBy(st.objectData)
         IN  [objectData |-> uniq,
              log |-> Append(st.log,
                        LogEntry("duplicates", "", beforeCount - Len(uniq)))]
    ELSE st

\* Mutant: the guard is dropped, the step runs and logs on every table
RemoveDuplicatesUnguarded(st, iss) ==
    LET beforeCount == Len(st.objectData)
        uniq == UniqBy(st.objectData)
    IN  [objectData |-> uniq,
         log |-> Append(st.log,
                   LogEntry("duplicates", "", beforeCount - Len(uniq)))]

\* Mutant: the entry states the number of rows kept
RemoveDuplicatesLogsKept(st, iss) ==
    IF iss.duplicates > 0
    THEN LET uniq == UniqBy(st.objectData)
         IN  [objectData |-> uniq,
              log |-> Append(st.log, LogEntry("duplicates", "", Len(uniq)))]
    ELSE st

\* Remove duplicates
RemoveDuplicates(st, iss) ==
    IF iss.duplicates > 0
    THEN LET beforeCount == Len(st.objectData)
             uniq == UniqBy(st.objectData)
         IN  [objectData |-> uniq,
              log |-> Append(st.log,
                        LogEntry("duplicates", "", beforeCount - Len(uniq)))]
    ELSE st

\* Mutant: trims only, a non-breaking space inside the value stays
FixWhitespaceCellTrimOnly(v) == Str(Trim(ToString(v)))

\* row[column]?.toString().replace(/\u00a0/g, ' ').trim() || ''
FixWhitespaceCell(v) == Str(Trim(ReplaceNbsp(ToString(v))))

\* Fix whitespace issues: Object.keys(issues.whitespace).forEach(...)
RECURSIVE FixWhitespace(_, _)
FixWhitespace(st, columns) ==
    IF columns = <<>> THEN st
    ELSE LET column == Head(columns)
             fixed == [i \in 1..Len(st.objectData) |->
                         [st.objectData[i] EXCEPT
                             ![column] = FixWhitespaceCell(@)]]
         IN  FixWhitespace(
                 [objectData |-> fixed,
                  log |-> Append(st.log, LogEntry("whitespace", column, 0))],
                 Tail(columns))

\* Mutant: the scan for the maximum stops one row early
MaxLengthSkipsLast(objectData, column) ==
    LET n == IF Len(objectData) > 1 THEN Len(objectData) - 1 ELSE 1
        lens == {Len(ToString(objectData[i][column])) : i \in 1..n}
    IN  CHOOSE m \in lens : \A l \in lens : l <= m

\* Math.max(...objectData.map(row => row[column]?.toString().length || 0))
MaxLength(objectData, column) ==
    LET lens == {Len(ToString(objectData[i][column])) : i \in 1..Len(objectData)}
    IN  CHOOSE m \in lens : \A l \in lens : l <= m

\* Mutant: padEnd instead of padStart
PadCellAtEnd(v, maxLength) ==
    Str(ToString(v) \o Repeat("0", maxLength - Len(ToString(v))))

\* row[column]?.toString().padStart(maxLength, '0') || ''
PadCell(v, maxLength) == Str(PadStart(ToString(v), maxLength))

\* Restore leading zeros: Object.keys(issues.leadingZeros).forEach(...)
RECURSIVE RestoreLeadingZeros(_, _)
RestoreLeadingZeros(st, columns) ==
    IF columns = <<>> THEN st
    ELSE LET column == Head(columns)
             maxLength == MaxLength(st.objectData, column)
             padded == [i \in 1..Len(st.objectData) |->
                          [st.objectData[i] EXCEPT
                              ![column] = PadCell(@, maxLength)]]
         IN  RestoreLeadingZeros(
                 [objectData |-> padded,
                  log |-> Append(st.log, LogEntry("leadingZeros", column, 0))],
                 Tail(columns))

\* A property key that is an array index: own keys that are array indices
\* are enumerated first, in ascending numeric order
IsArrayIndex(s) == AllDigits(s) /\ (Len(s) = 1 \/ Head(s) # "0")

\* Object.keys(_.countBy(values)): array-index keys in ascending numeric
\* order, then the other keys in the order of their first occurrence
CountByKeys(values) ==
    LET keys == UniqBy(Map(ToString, values))
        indexKeys == SelectSeq(keys, IsArrayIndex)
        otherKeys == SelectSeq(keys, LAMBDA k : ~IsArrayIndex(k))
        sortedIndex == Map(NatToString, SortAsc(Map(DecimalValue, indexKeys)))
    IN  sortedIndex \o otherKeys

CountOf(values, key) == Count(LAMBDA v : ToString(v) = key, values)

Unknown == Str(<<"U", "n", "k", "n", "o", "w", "n">>)

\* _.maxBy(Object.keys(counts), key => counts[key]) || 'Unknown': the first
\* key, in key order, whose count no other key exceeds
Mode(values) ==
    LET keys == CountByKeys(values)
        best == {i \in 1..Len(keys) :
                    /\ \A j \in 1..Len(keys) :
                          CountOf(values, keys[j]) <= CountOf(values, keys[i])
                    /\ \A j \in 1..(i - 1) :
                          CountOf(values, keys[j]) < CountOf(values, keys[i])}
    IN  IF best = {} \/ keys[CHOOSE i \in best : TRUE] = <<>> THEN Unknown
        ELSE Str(keys[CHOOSE i \in best : TRUE])

\* objectData.map(row => row[column]).filter(val => val && val.toString().trim() !== '')
NonEmptyValues(objectData, column) ==
    SelectSeq(Column(objectData, column), LAMBDA v : ~IsMissing(v))

FillValue(nonEmptyValues) ==
    LET numericValues == NumericValues(nonEmptyValues)
    IN  IF Len(numericValues) = Len(nonEmptyValues)
        THEN Num(Median(numericValues))
        ELSE Mode(nonEmptyValues)

\* (row[column] && row[column].toString().trim()) || fillValue
FillCell(v, fillValue) ==
    IF Truthy(v) /\ Trim(ToString(v)) # <<>> THEN Str(Trim(ToString(v)))
    ELSE fillValue

\* Fill missing values: Object.keys(issues.missing).forEach(...)
RECURSIVE FillMissing(_, _, _)
FillMissing(st, columns, iss) ==
    IF columns = <<>> THEN st
    ELSE LET column == Head(columns)
             nonEmptyValues == NonEmptyValues(st.objectData, column)
             fillValue == FillValue(nonEmptyValues)
             filled == [i \in 1..Len(st.objectData) |->
                          [st.objectData[i] EXCEPT
                              ![column] = FillCell(@, fillValue)]]
         IN  IF Len(nonEmptyValues) > 0
             THEN FillMissing(
                      [objectData |-> filled,
                       log |-> Append(st.log,
                                 LogEntry("missing", column,
                                          Get(iss.missing, column)))],
                      Tail(columns), iss)
             ELSE FillMissing(st, Tail(columns), iss)

\* The state of the run after each step of the pipeline
AfterDedup(data, hdrs, iss) ==
    RemoveDuplicates([objectData |-> ObjectData(data, hdrs), log |-> <<>>], iss)
AfterWhitespace(data, hdrs, iss) ==
    FixWhitespace(AfterDedup(data, hdrs, iss), Keys(iss.whitespace))
\* Mutant: the leading-zero step runs before the whitespace step
AfterLeadingZerosSwapped(data, hdrs, iss) ==
    FixWhitespace(
        RestoreLeadingZeros(AfterDedup(data, hdrs, iss), Keys(iss.leadingZeros)),
        Keys(iss.whitespace))
AfterLeadingZeros(data, hdrs, iss) ==
    RestoreLeadingZeros(AfterWhitespace(data, hdrs, iss), Keys(iss.leadingZeros))
AfterFill(data, hdrs, iss) ==
    FillMissing(AfterLeadingZeros(data, hdrs, iss), Keys(iss.missing), iss)

\* Mutant: objectData.map(row => Object.values(row)), one cell per key
ToArrayDataOwnValues(objectData, hdrs) ==
    [i \in 1..Len(objectData) |->
        [j \in 1..Len(UniqBy(hdrs)) |-> objectData[i][UniqBy(hdrs)[j]]]]

\* objectData.map(row => headers.map(header => row[header]))
ToArrayData(objectData, hdrs) ==
    [i \in 1..Len(objectData) |->
        [j \in 1..Len(hdrs) |-> objectData[i][hdrs[j]]]]

CompletionEntry == LogEntry("complete", "", 0)

\* ------------------------------------------------------------------------
\* Input tables
\* ------------------------------------------------------------------------
HeaderNames == {"a", "b"}

\* Cell texts of a parsed CSV file: the first column draws from all of
\* them, the further columns from OtherCellValues
CellValues ==
    {Str(<<>>), Str(<<"0">>), Str(<<"1">>), Str(<<"b">>), Str(<<"0", "1">>),
     Str(<<"1", NBSP, "1", " ">>), Str(<<" ">>)}
OtherCellValues == {Str(<<>>), Str(<<"b">>), Str(<<"1", " ">>)}

SeqsUpTo(S, lo, hi) == UNION {[1..n -> S] : n \in lo..hi}

\* Papa.parse with skipEmptyLines: a line is never empty, so no row is ['']
ParsedRows ==
    {r \in SeqsUpTo(CellValues \cup OtherCellValues, 1, MaxCols) :
        /\ r[1] \in CellValues
        /\ \A j \in 2..Len(r) : r[j] \in OtherCellValues} \ {<<EmptyStr>>}
HeaderRows == {h \in SeqsUpTo(HeaderNames, 1, MaxCols) : h[1] = "a"}

\* What Papa.parse returns for a file: no line at all, or a header row and
\* the data rows
CsvFile(h, d) == [parsed |-> TRUE, headerRow |-> h, dataRows |-> d]
EmptyFile == [parsed |-> FALSE, headerRow |-> <<>>, dataRows |-> <<>>]

\* The files of the upload scenarios: an empty file, a header-only file, a
\* table without issues, and tables with duplicates, white space and
\* missing values
Files ==
    {EmptyFile,
     CsvFile(<<"a">>, <<>>),
     CsvFile(<<"a", "b">>, << <<Str(<<"1">>), Str(<<"b">>)>> >>),
     CsvFile(<<"a", "b">>, << <<Str(<<"1">>), Str(<<"b">>)>>,
                              <<Str(<<"1">>), Str(<<"b">>)>>,
                              <<Str(<<"1", " ">>)>> >>),
     CsvFile(<<"a">>, << <<Str(<<"0", "1">>)>>, <<Str(<<" ">>)>> >>)}

\* The tables the cleaning pipeline is checked on
CleanFiles ==
    {CsvFile(h, d) : h \in HeaderRows, d \in SeqsUpTo(ParsedRows, 1, MaxRows)}

\* One-column tables for the outlier rule: MinSample..MaxSample rows whose
\* cells are runs of equal values, the runs in four orders
MinSample == OutlierMinCount
SampleCells == <<Str(<<"0">>), Str(<<"1">>), Str(<<"9">>), Str(<<"b">>)>>
RunOrders == {<<1, 2, 3, 4>>, <<4, 3, 2, 1>>, <<3, 1, 4, 2>>, <<2, 4, 1, 3>>}
RunLengths ==
    {c \in [1..4 -> 0..MaxSample] :
        c[1] + c[2] + c[3] + c[4] \in MinSample..MaxSample}
RunsOf(p, c) ==
    Repeat(<<SampleCells[p[1]]>>, c[p[1]]) \o Repeat(<<SampleCells[p[2]]>>, c[p[2]])
      \o Repeat(<<SampleCells[p[3]]>>, c[p[3]]) \o Repeat(<<SampleCells[p[4]]>>, c[p[4]])
OutlierFiles ==
    {CsvFile(<<"a">>, RunsOf(p, c)) : p \in RunOrders, c \in RunLengths}

\* ------------------------------------------------------------------------
\* React state of the component
\* ------------------------------------------------------------------------
VARIABLES csvData, headers, issues, cleanedData, cleaningLog, isLoading,
          readers, cleanedFrom, call

vars == <<csvData, headers, issues, cleanedData, cleaningLog, isLoading,
          readers, cleanedFrom, call>>

\* null / undefined and a held value
None == <<>>
Some(x) == <<x>>
Held(opt) == opt[1]

NoRun == [ran |-> FALSE, csvData |-> <<>>, headers |-> <<>>, issues |-> None]

\* A call of one of the two local functions quantile(arr, q) and
\* median(values): the sample (numbers kept as twice their value), q in
\* quarters, and the value returned (0 until the call returns)
Call(fn, arr, q4) ==
    [fn |-> fn, arr |-> arr, q4 |-> q4, returned |-> FALSE, result |-> 0]
NoCall == Call("none", <<>>, 0)

Init ==
    /\ csvData = <<>>
    /\ headers = Some(<<>>)
    /\ issues = None
    /\ cleanedData = <<>>
    /\ cleaningLog = <<>>
    /\ isLoading = FALSE
    /\ readers = {}
    /\ cleanedFrom = NoRun
    /\ call = NoCall

\* handleFileUpload: a file is chosen and handed to a FileReader
handleFileUpload ==
    \E file \in Files :
        /\ Cardinality(readers) < MaxReaders
        /\ file \notin readers
        /\ isLoading' = TRUE
        /\ readers' = readers \cup {file}
        /\ UNCHANGED <<csvData, headers, issues, cleanedData, cleaningLog,
                       cleanedFrom, call>>

\* reader.onload, the result is a string and the parse yields a header row
OnloadParsed(file) ==
    /\ file.parsed
    /\ headers' = Some(file.headerRow)
    /\ csvData' = file.dataRows
    /\ issues' = Some(detectIssues(file.dataRows, file.headerRow))
    /\ isLoading' = FALSE
    /\ UNCHANGED <<cleanedData, cleaningLog, cleanedFrom, call>>

\* Mutant: the catch block does not call setIsLoading(false)
OnloadCaughtKeepsLoading(file) ==
    /\ ~file.parsed
    /\ headers' = None
    /\ csvData' = <<>>
    /\ UNCHANGED <<issues, cleanedData, cleaningLog, cleanedFrom, call,
                   isLoading>>

\* reader.onload, the parse yields no row: headerRow is undefined, and
\* detectIssues throws on headers.length after setHeaders and setCsvData
OnloadCaught(file) ==
    /\ ~file.parsed
    /\ headers' = None
    /\ csvData' = <<>>
    /\ isLoading' = FALSE
    /\ UNCHANGED <<issues, cleanedData, cleaningLog, cleanedFrom, call>>

\* reader.onload, the result is not a string
OnloadNotString(file) ==
    /\ isLoading' = FALSE
    /\ UNCHANGED <<csvData, headers, issues, cleanedData, cleaningLog,
                   cleanedFrom, call>>

readerOnload ==
    \E file \in readers :
        /\ readers' = readers \ {file}
        /\ \/ OnloadParsed(file)
           \/ OnloadCaught(file)
           \/ OnloadNotString(file)

readerOnerror ==
    \E file \in readers :
        /\ readers' = readers \ {file}
        /\ isLoading' = FALSE
        /\ UNCHANGED <<csvData, headers, issues, cleanedData, cleaningLog,
                       cleanedFrom, call>>

\* Mutant: the held log is the array as it was when setCleaningLog was
\* called, without the completion entry pushed afterwards
CleanRunSnapshot(data, hdrs, iss) ==
    LET st == AfterFill(data, hdrs, iss)
    IN  [cleanedData |-> ToArrayData(st.objectData, hdrs),
         cleaningLog |-> st.log]

\* The values a run of cleanData hands to setCleanedData and setCleaningLog.
\* log.push adds the completion entry to the array setCleaningLog was given,
\* before the component renders again: the held log ends with it.
CleanRun(data, hdrs, iss) ==
    LET st == AfterFill(data, hdrs, iss)
    IN  [cleanedData |-> ToArrayData(st.objectData, hdrs),
         cleaningLog |-> Append(st.log, CompletionEntry)]

\* Mutant: the deduplication is done on the held table itself
InputDeduplicated(data) == UniqBy(data)

\* What a run leaves in csvData: cleanData works on copies ([...csvData],
\* fresh row objects) and never writes to the held table
InputAfterRun(data) == data

\* Mutant: setIsLoading(true) is called before the guard
cleanDataLoadingBeforeGuard ==
    IF issues = None \/ Len(csvData) = 0
    THEN /\ isLoading' = TRUE
         /\ UNCHANGED <<csvData, headers, issues, cleanedData, cleaningLog,
                        readers, cleanedFrom, call>>
    ELSE LET run == CleanRun(csvData, Held(headers), Held(issues))
         IN  /\ cleanedData' = run.cleanedData
             /\ cleaningLog' = run.cleaningLog
             /\ isLoading' = FALSE
             /\ csvData' = InputAfterRun(csvData)
             /\ cleanedFrom' = [ran |-> TRUE, csvData |-> csvData,
                                headers |-> Held(headers), issues |-> issues]
             /\ UNCHANGED <<headers, issues, readers, call>>

cleanData ==
    IF issues = None \/ Len(csvData) = 0
    THEN UNCHANGED vars
    ELSE LET run == CleanRun(csvData, Held(headers), Held(issues))
         IN  /\ cleanedData' = run.cleanedData
             /\ cleaningLog' = run.cleaningLog
             /\ isLoading' = FALSE
             /\ csvData' = InputAfterRun(csvData)
             /\ cleanedFrom' = [ran |-> TRUE, csvData |-> csvData,
                                headers |-> Held(headers), issues |-> issues]
             /\ UNCHANGED <<headers, issues, readers, call>>

Next ==
    \/ handleFileUpload
    \/ readerOnload
    \/ readerOnerror
    \/ cleanData

Spec == Init /\ [][Next]_vars

\* A FileReader that was started fires load or error: reader.readAsText
\* always ends with one of the two events
SpecLive == Spec /\ WF_vars(readerOnload \/ readerOnerror)

\* A table has just been loaded: the state the component is in after one
\* successful upload of a file of CleanFiles

InitLoaded ==
    \E file \in CleanFiles :
        /\ csvData = file.dataRows
        /\ headers = Some(file.headerRow)
        /\ issues = Some(detectIssues(file.dataRows, file.headerRow))
        /\ cleanedData = <<>>
        /\ cleaningLog = <<>>
        /\ isLoading = FALSE
        /\ readers = {}
        /\ cleanedFrom = NoRun
        /\ call = NoCall

SpecClean == InitLoaded /\ [][cleanData]_vars

\* A file has just been handed to a FileReader: the state the component is
\* in after handleFileUpload from the initial state
DetectFiles == CleanFiles \cup {EmptyFile}

InitReading ==
    \E file \in DetectFiles :
        /\ csvData = <<>>
        /\ headers = Some(<<>>)
        /\ issues = None
        /\ cleanedData = <<>>
        /\ cleaningLog = <<>>
        /\ isLoading = TRUE
        /\ readers = {file}
        /\ cleanedFrom = NoRun
        /\ call = NoCall

SpecDetect == InitReading /\ [][readerOnload \/ readerOnerror]_vars

\* The same state, for a file of OutlierFiles
InitReadingSample ==
    \E file \in OutlierFiles \cup {EmptyFile} :
        /\ csvData = <<>>
        /\ headers = Some(<<>>)
        /\ issues = None
        /\ cleanedData = <<>>
        /\ cleaningLog = <<>>
        /\ isLoading = TRUE
        /\ readers = {file}
        /\ cleanedFrom = NoRun
        /\ call = NoCall

SpecOutliers == InitReadingSample /\ [][readerOnload \/ readerOnerror]_vars

\* quantile and median called on their own, on samples of up to MaxCallLen
\* whole numbers
CallValues == {0, 2, 18}
CallSamples == SeqsUpTo(CallValues, 0, MaxCallLen)
Quarters == 0..4

InitCall ==
    /\ csvData = <<>>
    /\ headers = Some(<<>>)
    /\ issues = None
    /\ cleanedData = <<>>
    /\ cleaningLog = <<>>
    /\ isLoading = FALSE
    /\ readers = {}
    /\ cleanedFrom = NoRun
    /\ call \in {Call("quantile", arr, q4) : arr \in CallSamples, q4 \in Quarters}
                \cup {Call("median", arr, 0) : arr \in CallSamples}

quantile ==
    /\ call.fn = "quantile"
    /\ ~call.returned
    /\ call' = [call EXCEPT !.returned = TRUE,
                            !.result = Quantile(call.arr, call.q4)]
    /\ UNCHANGED <<csvData, headers, issues, cleanedData, cleaningLog,
                   isLoading, readers, cleanedFrom>>

median ==
    /\ call.fn = "median"
    /\ ~call.returned
    /\ call' = [call EXCEPT !.returned = TRUE, !.result = Median(call.arr)]
    /\ UNCHANGED <<csvData, headers, issues, cleanedData, cleaningLog,
                   isLoading, readers, cleanedFrom>>

SpecCalls == InitCall /\ [][quantile \/ median]_vars

\* ------------------------------------------------------------------------
\* The last cleaning run: its inputs (cleanedFrom) and its results
\* (cleanedData, cleaningLog), which later uploads leave in place
\* ------------------------------------------------------------------------
Ran == cleanedFrom.ran
runData == cleanedFrom.csvData
runHeaders == cleanedFrom.headers
runIssues == Held(cleanedFrom.issues)

\* The report the run used is the one detect produces on the run's table
ReportOfTable == runIssues = detectIssues(runData, runHeaders)

\* The positions of the Cleaned Table that hold the column
PositionsOf(column) == {j \in 1..Len(runHeaders) : runHeaders[j] = column}
\* The values of a column in the Cleaned Table
CleanedCells(column) ==
    {cleanedData[i][j] : i \in 1..Len(cleanedData), j \in PositionsOf(column)}

runInput == ObjectData(runData, runHeaders)
runAfterDedup == AfterDedup(runData, runHeaders, runIssues).objectData
runAfterWhitespace == AfterWhitespace(runData, runHeaders, runIssues).objectData
runAfterLeadingZeros ==
    AfterLeadingZeros(runData, runHeaders, runIssues).objectData

\* C1: when the report of the table has duplicates = k > 0, the Cleaned
\* Table has exactly (number of rows of the table) - k rows.
C1_CleanedRowCount ==
    (Ran /\ ReportOfTable /\ runIssues.duplicates > 0)
        => Len(cleanedData) = Len(runData) - runIssues.duplicates

C1_Witness ==
    /\ Ran /\ ReportOfTable
    /\ runIssues.duplicates = 1
    /\ Len(runData) = 3
    /\ Len(cleanedData) = 2

\* C2: when the report of the table has duplicates > 0, detect on the
\* Cleaned Table reports duplicates = 0.
C2_NoDuplicatesAfterClean ==
    (Ran /\ ReportOfTable /\ runIssues.duplicates > 0)
        => detectIssues(cleanedData, runHeaders).duplicates = 0

\* The non-empty values of a column as the imputation step gathers them
GatheredValues(column) == NonEmptyValues(runAfterLeadingZeros, column)

\* C3: in a column flagged missing whose non-empty values, as gathered by
\* the imputation step, all parse as numbers, every cell that was missing in
\* the input and whose row survives deduplication holds the median of those
\* values in the Cleaned Table.
C3_MedianFill ==
    (Ran /\ ReportOfTable) =>
        \A column \in Range(Keys(runIssues.missing)) :
            LET gathered == GatheredValues(column)
                numeric == NumericValues(gathered)
            IN  (Len(gathered) > 0 /\ Len(numeric) = Len(gathered)) =>
                    \A i \in 1..Len(runAfterDedup), j \in PositionsOf(column) :
                        IsMissing(runAfterDedup[i][column])
                            => cleanedData[i][j] = Num(Median(numeric))

\* C4: in a column flagged missing that has no non-empty value at all, every
\* cell is "Unknown" in the Cleaned Table.
C4_UnknownFill ==
    (Ran /\ ReportOfTable) =>
        \A column \in Range(Keys(runIssues.missing)) :
            (\A i \in 1..Len(runInput) : IsMissing(runInput[i][column]))
                => CleanedCells(column) = {Unknown}

\* The lengths of the values of a column in the Cleaned Table
CleanedLengths(column) == {Len(ToString(c)) : c \in CleanedCells(column)}

\* C5 as stated: in a column flagged leadingZeros every value of the
\* Cleaned Table has the maximum length of the column's values in the input
\* table, also when the column is flagged whitespace.
C5_PreCleaningLength ==
    (Ran /\ ReportOfTable) =>
        \A column \in Range(Keys(runIssues.leadingZeros)) :
            CleanedLengths(column) = {MaxLength(runInput, column)}

\* C5 as amended: in a column flagged leadingZeros every value of the
\* Cleaned Table has the maximum length of the column's values after
\* deduplication and whitespace normalization (which is the maximum length
\* in the input table when the column is not flagged whitespace).
C5_NormalizedLength ==
    (Ran /\ ReportOfTable) =>
        \A column \in Range(Keys(runIssues.leadingZeros)) :
            /\ CleanedLengths(column) = {MaxLength(runAfterWhitespace, column)}
            /\ ~HasKey(runIssues.whitespace, column)
                 => MaxLength(runAfterWhitespace, column)
                      = MaxLength(runInput, column)

C5_Witness ==
    /\ Ran /\ ReportOfTable
    /\ \E column \in Range(Keys(runIssues.leadingZeros)) :
          /\ HasKey(runIssues.whitespace, column)
          /\ MaxLength(runAfterWhitespace, column) < MaxLength(runInput, column)
          /\ CleanedLengths(column) = {MaxLength(runAfterWhitespace, column)}
          /\ \E i \in 1..Len(runAfterWhitespace) :
                Len(ToString(runAfterWhitespace[i][column]))
                    < MaxLength(runAfterWhitespace, column)

\* The value with the highest count that occurs first in a top-to-bottom
\* scan of the values
FirstMostFrequent(values) ==
    LET count(k) == CountOf(values, ToString(values[k]))
        first == CHOOSE k \in 1..Len(values) :
                    /\ \A l \in 1..Len(values) : count(l) <= count(k)
                    /\ \A l \in 1..(k - 1) : count(l) < count(k)
    IN  Str(ToString(values[first]))

\* C6: in a column flagged missing with a non-empty value that does not
\* parse as a number, every missing cell is filled with the most frequent
\* non-empty value, and among values of equal count with the one that occurs
\* first in the column.
C6_ModeFirstEncountered ==
    (Ran /\ ReportOfTable) =>
        \A column \in Range(Keys(runIssues.missing)) :
            LET gathered == GatheredValues(column)
            IN  Len(NumericValues(gathered)) < Len(gathered) =>
                    \A i \in 1..Len(runAfterLeadingZeros), j \in PositionsOf(column) :
                        IsMissing(runAfterLeadingZeros[i][column])
                            => cleanedData[i][j] = FirstMostFrequent(gathered)

NoIssues ==
    /\ runIssues.duplicates = 0
    /\ runIssues.missing = <<>>
    /\ runIssues.whitespace = <<>>
    /\ runIssues.leadingZeros = <<>>

\* C7 as stated: cleaning a non-empty table whose report has no issues
\* leaves an empty Cleaning Log.
C7_EmptyLog ==
    (Ran /\ ReportOfTable /\ NoIssues) => cleaningLog = <<>>

\* C7 as amended: cleaning a non-empty table whose report has no issues
\* leaves a Cleaning Log without any fix entry: its only entry is the
\* completion entry.
C7_OnlyCompletion ==
    (Ran /\ ReportOfTable /\ NoIssues) => cleaningLog = <<CompletionEntry>>

C7_Witness ==
    /\ Ran /\ ReportOfTable /\ NoIssues
    /\ Len(runData) > 1
    /\ cleanedData = ToArrayData(runInput, runHeaders)
    /\ cleaningLog = <<CompletionEntry>>

\* C8 as stated: after every cleaning run the last entry of the held
\* Cleaning Log is the completion entry, and its severity is info.
C8_CompletionInfo ==
    Ran => /\ cleaningLog # <<>>
           /\ cleaningLog[Len(cleaningLog)].step = "complete"
           /\ cleaningLog[Len(cleaningLog)].type = "info"

\* C8 as amended: after every cleaning run the last entry of the held
\* Cleaning Log is the completion entry, the only one of the log, and its
\* severity is success.
C8_CompletionLast ==
    Ran => /\ cleaningLog # <<>>
           /\ cleaningLog[Len(cleaningLog)].step = "complete"
           /\ cleaningLog[Len(cleaningLog)].type = "success"
           /\ \A n \in 1..(Len(cleaningLog) - 1) :
                 cleaningLog[n].step # "complete"

C8_Witness ==
    /\ Ran
    /\ Len(cleaningLog) >= 4
    /\ cleaningLog[Len(cleaningLog)] = CompletionEntry

\* C9: in a column flagged whitespace every value of the Cleaned Table is
\* free of non-breaking spaces and equals its own trimmed form, also after
\* leading-zero padding and imputation wrote into the column.
C9_WhitespaceClean ==
    (Ran /\ ReportOfTable) =>
        \A column \in Range(Keys(runIssues.whitespace)) :
            \A c \in CleanedCells(column) :
                /\ ~IncludesNbsp(ToString(c))
                /\ ToString(c) = Trim(ToString(c))

C9_Witness ==
    /\ Ran /\ ReportOfTable
    /\ \E column \in Range(Keys(runIssues.whitespace)) :
          /\ HasKey(runIssues.leadingZeros, column)
          /\ HasKey(runIssues.missing, column)
          /\ \E i \in 1..Len(runInput) : IncludesNbsp(ToString(runInput[i][column]))
          /\ \A c \in CleanedCells(column) :
                ~IncludesNbsp(ToString(c)) /\ ToString(c) = Trim(ToString(c))

StepRank(step) ==
    CASE step = "duplicates"   -> 1
      [] step = "whitespace"   -> 2
      [] step = "leadingZeros" -> 3
      [] step = "missing"      -> 4
      [] step = "complete"     -> 5

IsPrefix(s, t) == Len(s) <= Len(t) /\ SubSeq(t, 1, Len(s)) = s

\* C11: the entries of the Cleaning Log are in pipeline order (at most one
\* deduplication entry, then the whitespace entries, then the leading-zero
\* entries, then the missing-value entries, then the completion entry), and
\* the log of each step extends the log of the step before it.
C11_LogOrder ==
    Ran =>
        /\ \A m, n \in 1..Len(cleaningLog) :
              m < n =>
                /\ StepRank(cleaningLog[m].step) <= StepRank(cleaningLog[n].step)
                /\ cleaningLog[n].step # "duplicates"
                /\ cleaningLog[m].step # "complete"
        /\ IsPrefix(AfterDedup(runData, runHeaders, runIssues).log,
                    AfterWhitespace(runData, runHeaders, runIssues).log)
        /\ IsPrefix(AfterWhitespace(runData, runHeaders, runIssues).log,
                    AfterLeadingZeros(runData, runHeaders, runIssues).log)
        /\ IsPrefix(AfterLeadingZeros(runData, runHeaders, runIssues).log,
                    AfterFill(runData, runHeaders, runIssues).log)
        /\ IsPrefix(AfterFill(runData, runHeaders, runIssues).log, cleaningLog)

C11_Witness ==
    /\ Ran
    /\ Len(cleaningLog) >= 5
    /\ {cleaningLog[n].step : n \in 1..Len(cleaningLog)}
         = {"duplicates", "whitespace", "leadingZeros", "missing", "complete"}
    /\ \A m, n \in 1..Len(cleaningLog) :
          m < n => StepRank(cleaningLog[m].step) <= StepRank(cleaningLog[n].step)

\* ------------------------------------------------------------------------
\* The held table read by position, and the report detect made of it
\* ------------------------------------------------------------------------
Detected == issues # None /\ headers # None
report == Held(issues)
columns == 1..Len(Held(headers))
ColumnName(j) == Held(headers)[j]

\* The text of the cell of row i in the column at position j, a cell the row
\* does not have being read as empty text
CellText(rows, i, j) == IF j <= Len(rows[i]) THEN rows[i][j].str ELSE <<>>

\* Empty or made of white space only
IsBlank(text) == \A n \in 1..Len(text) : text[n] \in WhiteSpaceChars

MissingRows(j) == {i \in 1..Len(csvData) : IsBlank(CellText(csvData, i, j))}

\* C12: for every column of the table, missing[column] is the number of rows
\* whose cell in that column is absent, empty or white space only, and the
\* column is not in missing when that number is 0.
C12_MissingCount ==
    Detected =>
        \A j \in columns :
            IF MissingRows(j) = {}
            THEN ~HasKey(report.missing, ColumnName(j))
            ELSE /\ HasKey(report.missing, ColumnName(j))
                 /\ Get(report.missing, ColumnName(j)) = Cardinality(MissingRows(j))

\* The fields of row i of the table the run cleaned, one per column position
RowFields(i) == [j \in 1..Len(runHeaders) |-> CellText(runData, i, j)]
DistinctRows == {RowFields(i) : i \in 1..Len(runData)}
\* The rows that are the first occurrence of their fields
FirstOccurrences ==
    {i \in 1..Len(runData) : \A k \in 1..(i - 1) : RowFields(k) # RowFields(i)}
NthOf(S, n) == CHOOSE i \in S : Cardinality({k \in S : k < i}) = n - 1

\* C13: duplicates is the number of rows minus the number of distinct rows,
\* compared field by field with absent cells read as empty text; when it is
\* positive the deduplication step keeps exactly the first occurrence of each
\* distinct row, in the order of the table.
C13_Duplicates ==
    Ran =>
        /\ runIssues.duplicates = Len(runData) - Cardinality(DistinctRows)
        /\ runIssues.duplicates > 0 =>
             /\ Len(runAfterDedup) = Cardinality(FirstOccurrences)
             /\ \A n \in 1..Len(runAfterDedup) :
                   \A j \in 1..Len(runHeaders) :
                       runAfterDedup[n][runHeaders[j]].str
                         = RowFields(NthOf(FirstOccurrences, n))[j]

\* The rows whose cell in column j parses as a number, and that number
\* (kept as twice its value)
NumericRows(j) ==
    {i \in 1..Len(csvData) : ~ParseFloat(Str(CellText(csvData, i, j))).nan}
NumberAt(i, j) == ParseFloat(Str(CellText(csvData, i, j))).twice

\* The k-th smallest of the numbers of column j
OrderStatistic(j, k) ==
    CHOOSE x \in {NumberAt(i, j) : i \in NumericRows(j)} :
        /\ Cardinality({i \in NumericRows(j) : NumberAt(i, j) < x}) < k
        /\ k <= Cardinality({i \in NumericRows(j) : NumberAt(i, j) <= x})

\* Four times the quantile of order q4/4 of the numbers of column j, by
\* linear interpolation at rank (n - 1) * q4/4
InterpolatedQuantile(j, q4) ==
    LET rank4 == (Cardinality(NumericRows(j)) - 1) * q4
        below == rank4 \div 4 + 1
        part4 == rank4 % 4
    IN  IF part4 = 0 THEN 4 * OrderStatistic(j, below)
        ELSE 4 * OrderStatistic(j, below)
               + part4 * (OrderStatistic(j, below + 1) - OrderStatistic(j, below))

InterquartileRange(j) == InterpolatedQuantile(j, 3) - InterpolatedQuantile(j, 1)

\* The rows whose number is below Q1 - 3 IQR or above Q3 + 3 IQR
OutsideFences(j) ==
    LET lower == InterpolatedQuantile(j, 1) - 3 * InterquartileRange(j)
        upper == InterpolatedQuantile(j, 3) + 3 * InterquartileRange(j)
    IN  {i \in NumericRows(j) :
            4 * NumberAt(i, j) < lower \/ 4 * NumberAt(i, j) > upper}

\* C14: outliers[column] is recorded only if the column has more than 10
\* numeric values and at least one of them is below Q1 - 3 IQR or above
\* Q3 + 3 IQR; the recorded value is the number of such values, never 0.
C14_Outliers ==
    Detected =>
        \A j \in columns :
            HasKey(report.outliers, ColumnName(j)) =>
                /\ Cardinality(NumericRows(j)) > 10
                /\ OutsideFences(j) # {}
                /\ Get(report.outliers, ColumnName(j)) = Cardinality(OutsideFences(j))
                /\ Get(report.outliers, ColumnName(j)) # 0

C14_Witness ==
    /\ Detected
    /\ \E j \in columns :
          /\ HasKey(report.outliers, ColumnName(j))
          /\ InterquartileRange(j) > 0
          /\ Cardinality(NumericRows(j)) = 11
          /\ OrderStatistic(j, 3) # OrderStatistic(j, 4)
          /\ Get(report.outliers, ColumnName(j)) = Cardinality(OutsideFences(j))

\* C15: quantile and median return 0 on an empty sample, and the quantile
\* of a one-value sample is that value for every q; every call returns a
\* number.
C15_TotalOnSmallSamples ==
    call.returned =>
        /\ call.result \in Int
        /\ call.arr = <<>> => call.result = 0
        /\ (call.fn = "quantile" /\ Len(call.arr) = 1) =>
              call.result = 4 * call.arr[1]

C15_Witness ==
    /\ call.returned
    /\ call.fn = "quantile"
    /\ Len(call.arr) = 1
    /\ call.arr[1] # 0
    /\ call.q4 = 3
    /\ call.result = 4 * call.arr[1]

\* The rows whose cell in the column is empty when the imputation step
\* starts: the cells that step fills
FilledRows(column) ==
    {i \in 1..Len(runAfterLeadingZeros) :
        IsBlank(runAfterLeadingZeros[i][column].str)}

\* C17: the count stated by the missing-value log entry of a column is the
\* number of cells the imputation step filled in that column.
C17_FilledCount ==
    Ran =>
        \A n \in 1..Len(cleaningLog) :
            cleaningLog[n].step = "missing" =>
                cleaningLog[n].count = Cardinality(FilledRows(cleaningLog[n].column))

\* The text left-padded with '0' to the width (unchanged when it is as long)
ZeroPadded(text, width) ==
    IF Len(text) >= width THEN text
    ELSE [n \in 1..width |->
            IF n <= width - Len(text) THEN "0" ELSE text[n - (width - Len(text))]]

\* The greatest length of the column's values after deduplication and
\* whitespace normalization
WidthAfterWhitespace(column) ==
    LET lens == {Len(runAfterWhitespace[i][column].str) :
                    i \in 1..Len(runAfterWhitespace)}
    IN  CHOOSE w \in lens : \A l \in lens : l <= w

\* C18: in a column flagged leadingZeros, every value of the Cleaned Table
\* is the value the cell had after deduplication and whitespace
\* normalization, left-padded with '0' to the greatest length in the column
\* at that point; all the values have that length and none is shortened.
C18_ZeroPadded ==
    Ran =>
        \A column \in Range(Keys(runIssues.leadingZeros)) :
            \A i \in 1..Len(cleanedData), j \in PositionsOf(column) :
                /\ ~cleanedData[i][j].num
                /\ cleanedData[i][j].str
                     = ZeroPadded(runAfterWhitespace[i][column].str,
                                  WidthAfterWhitespace(column))
                /\ Len(cleanedData[i][j].str) = WidthAfterWhitespace(column)
                /\ Len(cleanedData[i][j].str) >= Len(runAfterWhitespace[i][column].str)

C18_Witness ==
    /\ Ran
    /\ \E column \in Range(Keys(runIssues.leadingZeros)) :
          \E i \in 1..Len(cleanedData), j \in PositionsOf(column) :
              /\ runInput[i][column] # runAfterWhitespace[i][column]
              /\ runAfterWhitespace[i][column].str # <<>>
              /\ Len(runAfterWhitespace[i][column].str) < WidthAfterWhitespace(column)
              /\ cleanedData[i][j].str
                   = ZeroPadded(runAfterWhitespace[i][column].str,
                                WidthAfterWhitespace(column))

\* The entries of the held log for a step and a column
EntriesOf(step, column) ==
    {n \in 1..Len(cleaningLog) :
        cleaningLog[n].step = step /\ cleaningLog[n].column = column}
EntriesOfStep(step) == {n \in 1..Len(cleaningLog) : cleaningLog[n].step = step}

\* C19: the log of a run on the report of its table has a deduplication
\* entry exactly when duplicates > 0, stating that count; it has exactly one
\* whitespace entry for each column in whitespace and exactly one
\* leading-zero entry for each column in leadingZeros, and none for a
\* column not flagged in that category.
C19_EntriesMatchReport ==
    (Ran /\ ReportOfTable) =>
        /\ (EntriesOfStep("duplicates") # {}) <=> (runIssues.duplicates > 0)
        /\ \A n \in EntriesOfStep("duplicates") :
              cleaningLog[n].count = runIssues.duplicates
        /\ \A column \in Range(Keys(runIssues.whitespace)) :
              Cardinality(EntriesOf("whitespace", column)) = 1
        /\ \A n \in EntriesOfStep("whitespace") :
              HasKey(runIssues.whitespace, cleaningLog[n].column)
        /\ \A column \in Range(Keys(runIssues.leadingZeros)) :
              Cardinality(EntriesOf("leadingZeros", column)) = 1
        /\ \A n \in EntriesOfStep("leadingZeros") :
              HasKey(runIssues.leadingZeros, cleaningLog[n].column)

C19_Witness ==
    /\ Ran
    /\ ReportOfTable
    /\ runIssues.duplicates > 0
    /\ Len(runAfterDedup) > runIssues.duplicates
    /\ \A n \in EntriesOfStep("duplicates") :
          cleaningLog[n].count = runIssues.duplicates
    /\ Len(runIssues.whitespace) = 2
    /\ Cardinality(EntriesOfStep("whitespace")) = 2
    /\ Len(runIssues.leadingZeros) = 1
    /\ Cardinality(EntriesOfStep("leadingZeros")) = 1
    /\ \E column \in Range(runHeaders) :
          /\ ~HasKey(runIssues.leadingZeros, column)
          /\ EntriesOf("leadingZeros", column) = {}

\* The rows of the run's table that deduplication keeps, and the one that
\* becomes row n of the Cleaned Table
SurvivingRows ==
    IF runIssues.duplicates > 0
    THEN {i \in 1..Len(runData) : \A k \in 1..(i - 1) : runInput[k] # runInput[i]}
    ELSE 1..Len(runData)
InputRowOf(n) == NthOf(SurvivingRows, n)

Flagged(category, j) == HasKey(category, runHeaders[j])

\* C20: for every surviving row, the cell of a column that is in none of
\* missing, whitespace and leadingZeros is the cell of the input row (an
\* absent cell read as empty text), and in a column flagged only missing
\* every cell that was not empty in the input is unchanged.
C20_OnlyFlaggedColumnsChange ==
    Ran =>
        /\ Len(cleanedData) = Cardinality(SurvivingRows)
        /\ \A n \in 1..Len(cleanedData), j \in 1..Len(runHeaders) :
              LET before == CellText(runData, InputRowOf(n), j)
              IN  /\ (/\ ~Flagged(runIssues.missing, j)
                      /\ ~Flagged(runIssues.whitespace, j)
                      /\ ~Flagged(runIssues.leadingZeros, j))
                        => cleanedData[n][j] = Str(before)
                  /\ (/\ Flagged(runIssues.missing, j)
                      /\ ~Flagged(runIssues.whitespace, j)
                      /\ ~Flagged(runIssues.leadingZeros, j)
                      /\ before # <<>>)
                        => cleanedData[n][j] = Str(before)

\* The report detect makes of the Cleaned Table
reportOfCleaned == detectIssues(cleanedData, runHeaders)

\* The column has a value that is not empty in the table the run cleaned
HasValue(column) ==
    \E i \in 1..Len(runInput) : ~IsBlank(runInput[i][column].str)

\* C21: when the report flags missing for a column that has at least one
\* non-empty value, detect on the Cleaned Table reports no missing value
\* for that column.
C21_NoMissingAfterClean ==
    Ran =>
        \A column \in Range(Keys(runIssues.missing)) :
            HasValue(column) => ~HasKey(reportOfCleaned.missing, column)

\* C22: every row of the Cleaned Table has as many cells as the run had
\* headers, whatever the lengths of the input rows, and the Cleaned Table
\* has no more rows than the table the run cleaned.
C22_CleanedShape ==
    Ran =>
        /\ \A n \in 1..Len(cleanedData) : Len(cleanedData[n]) = Len(runHeaders)
        /\ Len(cleanedData) <= Len(runData)

C22_Witness ==
    /\ Ran
    /\ \E i \in 1..Len(runData) : Len(runData[i]) > Len(runHeaders)
    /\ \E i \in 1..Len(runData) : Len(runData[i]) = Len(runHeaders)
    /\ 0 < Len(cleanedData)
    /\ Len(cleanedData) < Len(runData)
    /\ \A n \in 1..Len(cleanedData) : Len(cleanedData[n]) = Len(runHeaders)

\* No Issue Report is held, or the held table has no row
NothingToClean == issues = None \/ Len(csvData) = 0

\* C23: when no Issue Report is held or the held table has no row, cleanData
\* leaves the Cleaned Table, the Cleaning Log and the loading flag as they
\* are: no log entry is produced, not even the completion entry.
C23_NothingToClean ==
    [][(cleanData /\ NothingToClean)
          => UNCHANGED <<cleanedData, cleaningLog, isLoading>>]_vars

C23_Witness ==
    /\ issues # None
    /\ Len(csvData) = 0
    /\ cleanedData # <<>>
    /\ cleaningLog # <<>>
    /\ isLoading

\* C24: whenever an Issue Report is held, its structure.columns is the
\* number of held headers and its structure.rowCount is the number of held
\* rows.
C24_ReportDescribesTable ==
    issues # None =>
        /\ headers # None
        /\ report.structure.columns = Len(Held(headers))
        /\ report.structure.rowCount = Len(csvData)

\* C25: a loading flag set by an upload is eventually cleared; every step
\* in which a file reader finishes (parsed, exception caught, result not a
\* string, reader error) leaves isLoading false, and so does every
\* completed run of cleanData.
C25_LoadingCleared ==
    /\ isLoading ~> ~isLoading
    /\ [][(readerOnload \/ readerOnerror) => (isLoading' = FALSE)]_vars
    /\ [][(cleanData /\ ~NothingToClean) => (isLoading' = FALSE)]_vars

C25_Witness ==
    /\ ~isLoading
    /\ readers = {}
    /\ headers = None
    /\ issues # None
    /\ Ran

====
